---- MODULE Spec2Model ----
(***************************************************************************)
(* Chord identification of between-days/struck.                            *)
(*                                                                         *)
(* The core is a set of pure functions: the interval vocabulary            *)
(* (theory/interval.rs), the interval deriver and quality classifier       *)
(* (theory/chord.rs) and the two entry points identify_from_root_and_notes *)
(* and identify_from_name (parser/chord_parser.rs).  Each function is an   *)
(* operator computed as the code computes it; a call is a state machine    *)
(* of two states: Init draws the arguments, the action of the called       *)
(* function stores its return value.                                       *)
(*                                                                         *)
(* Strings are sequences of one-character strings, so that formatting a    *)
(* chord name and searching it with the parser's regular expressions are   *)
(* computed, not assumed.                                                  *)
(*                                                                         *)
(* parser/chord_parser.rs names the seventh qualities Seventh(Minor),      *)
(* Seventh(Dominant), Seventh(Augmented), Seventh(Suspended(t));           *)
(* theory/chord.rs names the same variants MinorSeventh, Dominant,         *)
(* AugmentedSeventh, SuspendedSeventh(t) (chord.rs:50-54).  The model uses *)
(* the parser's names for both.                                            *)
(***************************************************************************)
EXTENDS Integers, Sequences, FiniteSets, TLC

VARIABLES pc, call, ret

vars == <<pc, call, ret>>

(***************************************************************************)
(* Bounds of the enumerated arguments.                                     *)
(***************************************************************************)
MaxNotes == 3

MaxTokens == 2

MaxIntervals == 3

\* the largest value handed to Interval::from
MaxSemitones == 20

(***************************************************************************)
(* theory/note.rs                                                          *)
(***************************************************************************)
Note == {"C", "C#", "D", "D#", "E", "F", "F#", "G", "G#", "A", "A#", "B"}

\* fmt::Display for Note: the spelling of a note, one character per element
NoteDisplay(n) ==
    CASE n = "C"  -> <<"C">>
      [] n = "C#" -> <<"C", "#">>
      [] n = "D"  -> <<"D">>
      [] n = "D#" -> <<"D", "#">>
      [] n = "E"  -> <<"E">>
      [] n = "F"  -> <<"F">>
      [] n = "F#" -> <<"F", "#">>
      [] n = "G"  -> <<"G">>
      [] n = "G#" -> <<"G", "#">>
      [] n = "A"  -> <<"A">>
      [] n = "A#" -> <<"A", "#">>
      [] n = "B"  -> <<"B">>

\* FromStr for Note: "Err" for a spelling that is not a note
NoteFromStr(s) ==
    CASE s = <<"C">>      -> "C"
      [] s = <<"C", "#">> -> "C#"
      [] s = <<"D", "b">> -> "C#"
      [] s = <<"D">>      -> "D"
      [] s = <<"D", "#">> -> "D#"
      [] s = <<"E">>      -> "E"
      [] s = <<"F">>      -> "F"
      [] s = <<"F", "#">> -> "F#"
      [] s = <<"G">>      -> "G"
      [] s = <<"G", "#">> -> "G#"
      [] s = <<"A">>      -> "A"
      [] s = <<"A", "#">> -> "A#"
      [] s = <<"B">>      -> "B"
      [] OTHER            -> "Err"

(***************************************************************************)
(* theory/interval.rs                                                      *)
(***************************************************************************)
OCTAVE == <<"C", "C#", "D", "D#", "E", "F", "F#", "G", "G#", "A", "A#", "B">>

Interval ==
    {"MajorSecond", "MinorThird", "MajorThird", "PerfectFourth",
     "DiminishedFifth", "PerfectFifth", "AugmentedFifth", "DiminishedSeventh",
     "MinorSeventh", "Seventh", "DiminishedNinth", "MinorNinth", "MajorNinth",
     "PerfectEleventh", "Unknown"}

\* the discriminant of the enum: `interval as usize`
AsUsize(i) ==
    CASE i = "MajorSecond"       -> 2
      [] i = "MinorThird"        -> 3
      [] i = "MajorThird"        -> 4
      [] i = "PerfectFourth"     -> 5
      [] i = "DiminishedFifth"   -> 6
      [] i = "PerfectFifth"      -> 7
      [] i = "AugmentedFifth"    -> 8
      [] i = "DiminishedSeventh" -> 9
      [] i = "MinorSeventh"      -> 10
      [] i = "Seventh"           -> 11
      [] i = "DiminishedNinth"   -> 12
      [] i = "MinorNinth"        -> 13
      [] i = "MajorNinth"        -> 14
      [] i = "PerfectEleventh"   -> 17
      [] i = "Unknown"           -> 100

\* an Interval::from without the arm of 12
IntervalFrom_without_twelve(value) ==
    CASE value = 2  -> "MajorSecond"
      [] value = 3  -> "MinorThird"
      [] value = 4  -> "MajorThird"
      [] value = 5  -> "PerfectFourth"
      [] value = 6  -> "DiminishedFifth"
      [] value = 7  -> "PerfectFifth"
      [] value = 8  -> "AugmentedFifth"
      [] value = 9  -> "DiminishedSeventh"
      [] value = 10 -> "MinorSeventh"
      [] value = 11 -> "Seventh"
      [] value = 13 -> "MinorNinth"
      [] value = 14 -> "MajorNinth"
      [] value = 17 -> "PerfectEleventh"
      [] OTHER      -> "Unknown"

\* impl From<usize> for Interval
IntervalFrom(value) ==
    CASE value = 2  -> "MajorSecond"
      [] value = 3  -> "MinorThird"
      [] value = 4  -> "MajorThird"
      [] value = 5  -> "PerfectFourth"
      [] value = 6  -> "DiminishedFifth"
      [] value = 7  -> "PerfectFifth"
      [] value = 8  -> "AugmentedFifth"
      [] value = 9  -> "DiminishedSeventh"
      [] value = 10 -> "MinorSeventh"
      [] value = 11 -> "Seventh"
      [] value = 12 -> "DiminishedNinth"
      [] value = 13 -> "MinorNinth"
      [] value = 14 -> "MajorNinth"
      [] value = 17 -> "PerfectEleventh"
      [] OTHER      -> "Unknown"

\* OCTAVE.iter().position(|x| x == note): the 0-based index of a note
Position(note) == (CHOOSE k \in 1..12 : OCTAVE[k] = note) - 1

\* a get_interval that counts the position of the root from one
get_interval_from_one(note, interval) ==
    LET root_index == Position(note) + 1
        interval_index == (root_index + AsUsize(interval)) % 12
    IN  OCTAVE[interval_index + 1]

\* get_interval: the note `interval` semitones above `note`, wrapping
get_interval(note, interval) ==
    LET root_index == Position(note)
        interval_index == (root_index + AsUsize(interval)) % 12
    IN  OCTAVE[interval_index + 1]

\* a find_interval that does not wrap a note below the root around the
\* octave: it counts the distance between the two positions
find_interval_no_wrap(root, note) ==
    LET root_pos == Position(root)
        note_pos == Position(note)
        semitones == IF note_pos < root_pos THEN root_pos - note_pos
                     ELSE note_pos - root_pos
    IN  IntervalFrom(semitones)

\* find_interval: the interval of `note` counted upward from `root`
find_interval(root, note) ==
    LET root_pos == Position(root)
        note_pos == IF Position(note) < root_pos
                    THEN Position(note) + 12
                    ELSE Position(note)
        semitones == note_pos - root_pos
    IN  IntervalFrom(semitones)

(***************************************************************************)
(* theory/chord.rs                                                         *)
(***************************************************************************)
ChordQuality ==
    {"Major", "Minor", "Diminished", "Augmented",
     "Suspended(Sus2)", "Suspended(Sus4)",
     "Seventh(Minor)", "Seventh(Major)", "Seventh(Dominant)",
     "Seventh(Augmented)", "Seventh(HalfDiminished)", "Seventh(Diminished)",
     "Seventh(Suspended(Sus2))", "Seventh(Suspended(Sus4))",
     "Ambiguous"}

TriadQuality == {"Major", "Minor", "Diminished", "Augmented", "Ambiguous"}

\* Vec::contains
Contains(v, x) == \E k \in 1..Len(v) : v[k] = x

\* the triad implied by the seventh types that theory/chord.rs has no variant
\* for (SeventhType "carrying its triad implication")
TriadQualityOfSeventh(chord_quality) ==
    CASE chord_quality = "Seventh(Major)"          -> "Major"
      [] chord_quality = "Seventh(Diminished)"     -> "Diminished"
      [] chord_quality = "Seventh(HalfDiminished)" -> "Diminished"

\* impl From<ChordQuality> for TriadQuality
TriadQualityFrom(chord_quality) ==
    CASE chord_quality \in {"Major", "Seventh(Dominant)"}       -> "Major"
      [] chord_quality \in {"Minor", "Seventh(Minor)"}          -> "Minor"
      [] chord_quality = "Diminished"                           -> "Diminished"
      [] chord_quality \in {"Augmented", "Seventh(Augmented)"}  -> "Augmented"
      [] chord_quality \in {"Suspended(Sus2)", "Suspended(Sus4)",
                            "Ambiguous"}                        -> "Ambiguous"
      [] chord_quality \in {"Seventh(Suspended(Sus2))",
                            "Seventh(Suspended(Sus4))"}         -> "Ambiguous"
      [] OTHER -> TriadQualityOfSeventh(chord_quality)

\* impl From<ChordQuality> for Vec<Interval>: the canonical interval set of a
\* quality; the arm `_ => vec![]` takes every quality that is not listed
VecFrom(chord_quality) ==
    CASE chord_quality = "Minor"      -> <<"MinorThird", "PerfectFifth">>
      [] chord_quality = "Major"      -> <<"MajorThird", "PerfectFifth">>
      [] chord_quality = "Diminished" -> <<"MinorThird", "DiminishedFifth">>
      [] chord_quality = "Augmented"  -> <<"MajorThird", "AugmentedFifth">>
      [] chord_quality = "Seventh(Augmented)" ->
            <<"MajorThird", "PerfectFifth", "MinorSeventh">>
      [] chord_quality = "Seventh(Minor)" ->
            <<"MinorThird", "PerfectFifth", "MinorSeventh">>
      [] chord_quality = "Seventh(Dominant)" ->
            <<"MajorThird", "PerfectFifth", "MinorSeventh">>
      [] chord_quality = "Suspended(Sus2)" -> <<"MajorSecond", "PerfectFifth">>
      [] chord_quality = "Suspended(Sus4)" -> <<"PerfectFourth", "PerfectFifth">>
      [] OTHER -> << >>

\* find_all_intervals_from_root_and_notes: notes.iter().skip(1).map(find_interval)
find_all_intervals_from_root_and_notes(root, notes) ==
    [k \in 1..(IF Len(notes) = 0 THEN 0 ELSE Len(notes) - 1) |->
        find_interval(root, notes[k + 1])]

\* a classifier that looks at the minor third before it looks for a conflict
derive_minor_third_first(intervals) ==
    LET has_minor_third == Contains(intervals, "MinorThird")
        has_major_third == Contains(intervals, "MajorThird")
        has_perfect_fifth == Contains(intervals, "PerfectFifth")
    IN  IF has_minor_third
        THEN IF has_perfect_fifth THEN "Minor" ELSE "Ambiguous"
        ELSE IF has_major_third /\ has_perfect_fifth THEN "Major" ELSE "Ambiguous"

\* a classifier that reads a seventh chord from a third and a minor seventh
\* when the fifth is left out
derive_seventh_without_fifth(intervals) ==
    LET has_second == Contains(intervals, "MajorSecond")
        has_fourth == Contains(intervals, "MajorSecond")
        has_minor_third == Contains(intervals, "MinorThird")
        has_major_third == Contains(intervals, "MajorThird")
        has_diminished_fifth == Contains(intervals, "DiminishedFifth")
        has_perfect_fifth == Contains(intervals, "PerfectFifth")
        has_augmented_fifth == Contains(intervals, "AugmentedFifth")
        has_minor_seventh == Contains(intervals, "MinorSeventh")
    IN  CASE has_minor_third /\ has_major_third -> "Ambiguous"
          [] ~has_minor_third /\ ~has_major_third ->
                IF ~has_perfect_fifth THEN "Ambiguous"
                ELSE IF has_second /\ has_fourth THEN "Ambiguous"
                ELSE IF has_second THEN "Suspended(Sus2)"
                ELSE IF has_fourth THEN "Suspended(Sus4)"
                ELSE "Ambiguous"
          [] has_minor_third /\ ~has_major_third ->
                IF has_perfect_fifth
                THEN IF has_minor_seventh THEN "Seventh(Minor)" ELSE "Minor"
                ELSE IF has_diminished_fifth /\ ~has_augmented_fifth
                THEN "Diminished"
                ELSE IF has_minor_seventh THEN "Seventh(Minor)"
                ELSE "Ambiguous"
          [] ~has_minor_third /\ has_major_third ->
                IF has_perfect_fifth
                THEN IF has_minor_seventh THEN "Seventh(Dominant)" ELSE "Major"
                ELSE IF has_augmented_fifth /\ ~has_diminished_fifth
                THEN "Augmented"
                ELSE IF has_minor_seventh THEN "Seventh(Dominant)"
                ELSE "Ambiguous"

\* a classifier that looks at the altered fifths before the perfect fifth
derive_altered_fifth_first(intervals) ==
    LET has_second == Contains(intervals, "MajorSecond")
        has_fourth == Contains(intervals, "MajorSecond")
        has_minor_third == Contains(intervals, "MinorThird")
        has_major_third == Contains(intervals, "MajorThird")
        has_diminished_fifth == Contains(intervals, "DiminishedFifth")
        has_perfect_fifth == Contains(intervals, "PerfectFifth")
        has_augmented_fifth == Contains(intervals, "AugmentedFifth")
        has_minor_seventh == Contains(intervals, "MinorSeventh")
    IN  CASE has_minor_third /\ has_major_third -> "Ambiguous"
          [] ~has_minor_third /\ ~has_major_third ->
                IF ~has_perfect_fifth THEN "Ambiguous"
                ELSE IF has_second /\ has_fourth THEN "Ambiguous"
                ELSE IF has_second THEN "Suspended(Sus2)"
                ELSE IF has_fourth THEN "Suspended(Sus4)"
                ELSE "Ambiguous"
          [] has_minor_third /\ ~has_major_third ->
                IF has_diminished_fifth /\ ~has_augmented_fifth
                THEN "Diminished"
                ELSE IF has_perfect_fifth
                THEN IF has_minor_seventh THEN "Seventh(Minor)" ELSE "Minor"
                ELSE "Ambiguous"
          [] ~has_minor_third /\ has_major_third ->
                IF has_augmented_fifth /\ ~has_diminished_fifth
                THEN "Augmented"
                ELSE IF has_perfect_fifth
                THEN IF has_minor_seventh THEN "Seventh(Dominant)" ELSE "Major"
                ELSE "Ambiguous"

\* a classifier that takes the major ninth for a second
derive_ninth_as_second(intervals) ==
    LET has_second == Contains(intervals, "MajorSecond")
                          \/ Contains(intervals, "MajorNinth")
        has_fourth == Contains(intervals, "MajorSecond")
        has_minor_third == Contains(intervals, "MinorThird")
        has_major_third == Contains(intervals, "MajorThird")
        has_diminished_fifth == Contains(intervals, "DiminishedFifth")
        has_perfect_fifth == Contains(intervals, "PerfectFifth")
        has_augmented_fifth == Contains(intervals, "AugmentedFifth")
        has_minor_seventh == Contains(intervals, "MinorSeventh")
    IN  CASE has_minor_third /\ has_major_third -> "Ambiguous"
          [] ~has_minor_third /\ ~has_major_third ->
                IF ~has_perfect_fifth THEN "Ambiguous"
                ELSE IF has_second /\ has_fourth THEN "Ambiguous"
                ELSE IF has_second THEN "Suspended(Sus2)"
                ELSE IF has_fourth THEN "Suspended(Sus4)"
                ELSE "Ambiguous"
          [] has_minor_third /\ ~has_major_third ->
                IF has_perfect_fifth
                THEN IF has_minor_seventh THEN "Seventh(Minor)" ELSE "Minor"
                ELSE IF has_diminished_fifth /\ ~has_augmented_fifth
                THEN "Diminished"
                ELSE "Ambiguous"
          [] ~has_minor_third /\ has_major_third ->
                IF has_perfect_fifth
                THEN IF has_minor_seventh THEN "Seventh(Dominant)" ELSE "Major"
                ELSE IF has_augmented_fifth /\ ~has_diminished_fifth
                THEN "Augmented"
                ELSE "Ambiguous"

\* derive_chord_quality_from_intervals
derive_chord_quality_from_intervals(intervals) ==
    LET has_second == Contains(intervals, "MajorSecond")
        has_fourth == Contains(intervals, "MajorSecond")
        has_minor_third == Contains(intervals, "MinorThird")
        has_major_third == Contains(intervals, "MajorThird")
        has_diminished_fifth == Contains(intervals, "DiminishedFifth")
        has_perfect_fifth == Contains(intervals, "PerfectFifth")
        has_augmented_fifth == Contains(intervals, "AugmentedFifth")
        has_minor_seventh == Contains(intervals, "MinorSeventh")
    IN  CASE has_minor_third /\ has_major_third -> "Ambiguous"
          [] ~has_minor_third /\ ~has_major_third ->
                IF ~has_perfect_fifth THEN "Ambiguous"
                ELSE IF has_second /\ has_fourth THEN "Ambiguous"
                ELSE IF has_second THEN "Suspended(Sus2)"
                ELSE IF has_fourth THEN "Suspended(Sus4)"
                ELSE "Ambiguous"
          [] has_minor_third /\ ~has_major_third ->
                IF has_perfect_fifth
                THEN IF has_minor_seventh THEN "Seventh(Minor)" ELSE "Minor"
                ELSE IF has_diminished_fifth /\ ~has_augmented_fifth
                THEN "Diminished"
                ELSE "Ambiguous"
          [] ~has_minor_third /\ has_major_third ->
                IF has_perfect_fifth
                THEN IF has_minor_seventh THEN "Seventh(Dominant)" ELSE "Major"
                ELSE IF has_augmented_fifth /\ ~has_diminished_fifth
                THEN "Augmented"
                ELSE "Ambiguous"

\* an add table that reads "7" as the major seventh
get_add_interval_major_seventh(add_str) ==
    CASE add_str = <<"7">>      -> "Seventh"
      [] add_str = <<"9">>      -> "MajorNinth"
      [] add_str = <<"1", "1">> -> "PerfectEleventh"
      [] OTHER                  -> "Unknown"

\* get_add_interval_from_add
get_add_interval_from_add(add_str) ==
    CASE add_str = <<"7">>      -> "MinorSeventh"
      [] add_str = <<"9">>      -> "MajorNinth"
      [] add_str = <<"1", "1">> -> "PerfectEleventh"
      [] OTHER                  -> "Unknown"

\* the notes of a chord: the root, then the note each interval reaches
\* (get_notes_from_root_and_intervals in the parser, inlined in
\* theory/chord.rs identify_from_name)
get_notes_from_root_and_intervals(root, intervals) ==
    <<root>> \o [k \in 1..Len(intervals) |-> get_interval(root, intervals[k])]

(***************************************************************************)
(* Regex::find and Regex::captures over a string of characters.  The regex *)
(* crate returns the leftmost match and, at that position, the first       *)
(* alternative that lets the whole pattern match.  A pattern is given by   *)
(* the sequence of its alternatives; << >> stands for None.                *)
(***************************************************************************)
MatchesAt(s, i, t) ==
    /\ i + Len(t) - 1 <= Len(s)
    /\ \A k \in 1..Len(t) : s[i + k - 1] = t[k]

\* a find that returns the rightmost match of the pattern
RegexFindRightmost(s, alts) ==
    LET hits == {i \in 1..Len(s) : \E a \in 1..Len(alts) : MatchesAt(s, i, alts[a])}
    IN  IF hits = {} THEN << >>
        ELSE LET i == CHOOSE h \in hits : \A g \in hits : h >= g
                 a == CHOOSE b \in 1..Len(alts) :
                        /\ MatchesAt(s, i, alts[b])
                        /\ \A c \in 1..(b - 1) : ~MatchesAt(s, i, alts[c])
             IN  alts[a]

\* Regex::find for a pattern (t1|t2|...): the text of the leftmost match
RegexFind(s, alts) ==
    LET hits == {i \in 1..Len(s) : \E a \in 1..Len(alts) : MatchesAt(s, i, alts[a])}
    IN  IF hits = {} THEN << >>
        ELSE LET i == CHOOSE h \in hits : \A g \in hits : h <= g
                 a == CHOOSE b \in 1..Len(alts) :
                        /\ MatchesAt(s, i, alts[b])
                        /\ \A c \in 1..(b - 1) : ~MatchesAt(s, i, alts[c])
             IN  alts[a]

\* the pattern (t1|t2|...)(u1|u2|...) matches at position i
MatchesPairAt(s, i, first, second) ==
    \E a \in 1..Len(first) :
        /\ MatchesAt(s, i, first[a])
        /\ \E b \in 1..Len(second) : MatchesAt(s, i + Len(first[a]), second[b])

\* Regex::captures(...)[2] for a pattern (t1|t2|...)(u1|u2|...): the text of
\* the second group of the leftmost match
RegexCaptures2(s, first, second) ==
    LET hits == {i \in 1..Len(s) : MatchesPairAt(s, i, first, second)}
    IN  IF hits = {} THEN << >>
        ELSE LET i == CHOOSE h \in hits : \A g \in hits : h <= g
                 ok(a) == /\ MatchesAt(s, i, first[a])
                          /\ \E b \in 1..Len(second) :
                                MatchesAt(s, i + Len(first[a]), second[b])
                 a == CHOOSE x \in 1..Len(first) :
                        ok(x) /\ \A y \in 1..(x - 1) : ~ok(y)
                 j == i + Len(first[a])
                 b == CHOOSE x \in 1..Len(second) :
                        /\ MatchesAt(s, j, second[x])
                        /\ \A y \in 1..(x - 1) : ~MatchesAt(s, j, second[y])
             IN  second[b]

\* Vec::dedup: consecutive repeats are removed
RECURSIVE Dedup(_)
Dedup(v) ==
    IF Len(v) <= 1 THEN v
    ELSE LET rest == Dedup(Tail(v))
         IN  IF Head(v) = Head(rest) THEN rest ELSE <<Head(v)>> \o rest

(***************************************************************************)
(* parser/chord_parser.rs                                                  *)
(***************************************************************************)
\* a root pattern that tries the natural before its sharp
root_re_naturals_first ==
    << <<"A">>, <<"A", "#">>, <<"B">>, <<"C">>, <<"C", "#">>, <<"D">>,
       <<"D", "#">>, <<"E">>, <<"F">>, <<"F", "#">>, <<"G">>, <<"G", "#">> >>

\* r"(A#|A|B|C#|C|D#|D|E|F#|F|G#|G)"
root_re ==
    << <<"A", "#">>, <<"A">>, <<"B">>, <<"C", "#">>, <<"C">>, <<"D", "#">>,
       <<"D">>, <<"E">>, <<"F", "#">>, <<"F">>, <<"G", "#">>, <<"G">> >>

\* r"(dim|m|aug|sus2|sus4)"
chord_quality_re ==
    << <<"d", "i", "m">>, <<"m">>, <<"a", "u", "g">>,
       <<"s", "u", "s", "2">>, <<"s", "u", "s", "4">> >>

\* an extension pattern that knows the roots only, not aug, dim and m
extension_quality_re_roots_only ==
    << <<"C", "#">>, <<"C">>, <<"D", "#">>, <<"D">>, <<"E">>, <<"F", "#">>,
       <<"F">>, <<"G", "#">>, <<"G">>, <<"A", "#">>, <<"A">>, <<"B">> >>

\* the first group of r"(aug|dim|C#|C|D#|D|E|F#|F|G#|G|A#|A|B|m)(7|9|11)"
extension_quality_re ==
    << <<"a", "u", "g">>, <<"d", "i", "m">>, <<"C", "#">>, <<"C">>,
       <<"D", "#">>, <<"D">>, <<"E">>, <<"F", "#">>, <<"F">>, <<"G", "#">>,
       <<"G">>, <<"A", "#">>, <<"A">>, <<"B">>, <<"m">> >>

\* the group (7|9|11) of the extension and the add patterns
numeral_re == << <<"7">>, <<"9">>, <<"1", "1">> >>

\* the first group of r"(add)(7|9|11)"
add_re == << <<"a", "d", "d">> >>

\* a quality table that lacks the entry of "sus4"
parse_chord_quality_without_sus4(s) ==
    CASE s = <<"m">>                -> "Minor"
      [] s = <<"d", "i", "m">>      -> "Diminished"
      [] s = <<"a", "u", "g">>      -> "Augmented"
      [] s = <<"s", "u", "s", "2">> -> "Suspended(Sus2)"
      [] s = <<"a", "u", "g", "7">> -> "Seventh(Augmented)"
      [] s = <<"m", "7">>           -> "Seventh(Minor)"
      [] s = <<"7">>                -> "Seventh(Dominant)"
      [] OTHER                      -> "Err"

\* parse_chord_quality
parse_chord_quality(s) ==
    CASE s = <<"m">>                -> "Minor"
      [] s = <<"d", "i", "m">>      -> "Diminished"
      [] s = <<"a", "u", "g">>      -> "Augmented"
      [] s = <<"s", "u", "s", "2">> -> "Suspended(Sus2)"
      [] s = <<"s", "u", "s", "4">> -> "Suspended(Sus4)"
      [] s = <<"a", "u", "g", "7">> -> "Seventh(Augmented)"
      [] s = <<"m", "7">>           -> "Seventh(Minor)"
      [] s = <<"7">>                -> "Seventh(Dominant)"
      [] OTHER                      -> "Err"

\* the chord_name of identify_from_root_and_notes: the symbol of a quality
\* on a root.  The half-diminished sign is written in the source as the
\* three characters U+00E2 U+2014 U+2039.
ChordName(root, chord_quality) ==
    LET r == NoteDisplay(root)
    IN  CASE chord_quality = "Ambiguous" ->
                <<"A", "m", "b", "i", "g", "u", "o", "u", "s">>
          [] chord_quality = "Minor"      -> r \o <<"m">>
          [] chord_quality = "Major"      -> r
          [] chord_quality = "Diminished" -> r \o <<"d", "i", "m">>
          [] chord_quality = "Augmented"  -> r \o <<"a", "u", "g">>
          [] chord_quality = "Seventh(Augmented)" -> r \o <<"a", "u", "g", "7">>
          [] chord_quality = "Seventh(Major)" -> r \o <<"m", "a", "j", "7">>
          [] chord_quality = "Seventh(HalfDiminished)" ->
                r \o <<"U+00E2", "U+2014", "U+2039", "7">>
          [] chord_quality = "Seventh(Minor)" -> r \o <<"m", "7">>
          [] chord_quality = "Seventh(Diminished)" -> r \o <<"d", "i", "m", "7">>
          [] chord_quality = "Seventh(Dominant)" -> r \o <<"7">>
          [] chord_quality = "Seventh(Suspended(Sus2))" ->
                r \o <<"7", "s", "u", "s", "2">>
          [] chord_quality = "Seventh(Suspended(Sus4))" ->
                r \o <<"7", "s", "u", "s", "4">>
          [] chord_quality = "Suspended(Sus2)" -> r \o <<"s", "u", "s", "2">>
          [] chord_quality = "Suspended(Sus4)" -> r \o <<"s", "u", "s", "4">>

\* identify_from_root_and_notes; the builder's notes stay empty
identify_from_root_and_notes(root, notes) ==
    LET intervals == find_all_intervals_from_root_and_notes(root, notes)
        chord_quality == derive_chord_quality_from_intervals(intervals)
        chord_name == ChordName(root, chord_quality)
    IN  [name |-> chord_name,
         root |-> root,
         notes |-> << >>,
         intervals |-> intervals,
         chord_quality |-> chord_quality,
         triad_quality |-> TriadQualityFrom(chord_quality)]

\* an enrichment whose "9" pushes the ninth of the "11" chain: a minor
\* ninth on a diminished base
ExtensionEnrichment_ninth_of_chain(chord_quality, ext) ==
    LET base == VecFrom(chord_quality)
        seventh == IF chord_quality = "Diminished"
                   THEN <<"DiminishedSeventh">> ELSE <<"MinorSeventh">>
        ninth == IF chord_quality = "Diminished"
                 THEN <<"DiminishedSeventh", "MinorNinth">>
                 ELSE <<"MinorSeventh", "MajorNinth">>
        pushed ==
            CASE ext = <<"7">>      -> base \o seventh
              [] ext = <<"9">>      -> base \o ninth
              [] ext = <<"1", "1">> -> base \o ninth \o <<"PerfectEleventh">>
              [] OTHER              -> base
        promoted ==
            CASE chord_quality = "Suspended(Sus2)" -> "Seventh(Suspended(Sus2))"
              [] chord_quality = "Suspended(Sus4)" -> "Seventh(Suspended(Sus4))"
              [] chord_quality = "Minor"      -> "Seventh(Minor)"
              [] chord_quality = "Major"      -> "Seventh(Major)"
              [] chord_quality = "Diminished" -> "Seventh(Diminished)"
              [] chord_quality = "Augmented"  -> "Seventh(Augmented)"
              [] OTHER                        -> chord_quality
    IN  IF ext = << >>
        THEN [intervals |-> base, chord_quality |-> chord_quality]
        ELSE [intervals |-> Dedup(pushed), chord_quality |-> promoted]

\* an enrichment that promotes a major base to the dominant seventh
ExtensionEnrichment_major_to_dominant(chord_quality, ext) ==
    LET base == VecFrom(chord_quality)
        seventh == IF chord_quality = "Diminished"
                   THEN <<"DiminishedSeventh">> ELSE <<"MinorSeventh">>
        ninth == IF chord_quality = "Diminished"
                 THEN <<"DiminishedSeventh", "MinorNinth">>
                 ELSE <<"MinorSeventh", "MajorNinth">>
        pushed ==
            CASE ext = <<"7">>      -> base \o seventh
              [] ext = <<"9">>      -> base \o seventh \o <<"MajorNinth">>
              [] ext = <<"1", "1">> -> base \o ninth \o <<"PerfectEleventh">>
              [] OTHER              -> base
        promoted ==
            CASE chord_quality = "Suspended(Sus2)" -> "Seventh(Suspended(Sus2))"
              [] chord_quality = "Suspended(Sus4)" -> "Seventh(Suspended(Sus4))"
              [] chord_quality = "Minor"      -> "Seventh(Minor)"
              [] chord_quality = "Major"      -> "Seventh(Dominant)"
              [] chord_quality = "Diminished" -> "Seventh(Diminished)"
              [] chord_quality = "Augmented"  -> "Seventh(Augmented)"
              [] OTHER                        -> chord_quality
    IN  IF ext = << >>
        THEN [intervals |-> base, chord_quality |-> chord_quality]
        ELSE [intervals |-> Dedup(pushed), chord_quality |-> promoted]

\* identify_from_name, the extension enrichment: the intervals and the
\* quality after the 7/9/11 numeral `ext` (<< >> when the pattern has no match)
ExtensionEnrichment(chord_quality, ext) ==
    LET base == VecFrom(chord_quality)
        seventh == IF chord_quality = "Diminished"
                   THEN <<"DiminishedSeventh">> ELSE <<"MinorSeventh">>
        ninth == IF chord_quality = "Diminished"
                 THEN <<"DiminishedSeventh", "MinorNinth">>
                 ELSE <<"MinorSeventh", "MajorNinth">>
        pushed ==
            CASE ext = <<"7">>      -> base \o seventh
              [] ext = <<"9">>      -> base \o seventh \o <<"MajorNinth">>
              [] ext = <<"1", "1">> -> base \o ninth \o <<"PerfectEleventh">>
              [] OTHER              -> base
        promoted ==
            CASE chord_quality = "Suspended(Sus2)" -> "Seventh(Suspended(Sus2))"
              [] chord_quality = "Suspended(Sus4)" -> "Seventh(Suspended(Sus4))"
              [] chord_quality = "Minor"      -> "Seventh(Minor)"
              [] chord_quality = "Major"      -> "Seventh(Major)"
              [] chord_quality = "Diminished" -> "Seventh(Diminished)"
              [] chord_quality = "Augmented"  -> "Seventh(Augmented)"
              [] OTHER                        -> chord_quality
    IN  IF ext = << >>
        THEN [intervals |-> base, chord_quality |-> chord_quality]
        ELSE [intervals |-> Dedup(pushed), chord_quality |-> promoted]

\* identify_from_name, the add token: the interval of r"(add)(7|9|11)",
\* "None" when the pattern has no match or the interval is Unknown
AddDegree(chord_name) ==
    LET cap == RegexCaptures2(chord_name, add_re, numeral_re)
    IN  IF cap = << >> THEN "None"
        ELSE IF get_add_interval_from_add(cap) = "Unknown" THEN "None"
        ELSE get_add_interval_from_add(cap)

InvalidChordName == [ok |-> FALSE]

\* an identify_from_name that runs the classifier whenever an add token is
\* found, also when its interval is already in the list
identify_from_name_reclassify(chord_name) ==
    LET root_match == RegexFind(chord_name, root_re)
        root == NoteFromStr(root_match)
        quality_match == RegexFind(chord_name, chord_quality_re)
        base_quality == IF quality_match = << >> THEN "Major"
                        ELSE parse_chord_quality(quality_match)
        enriched == ExtensionEnrichment(base_quality,
                        RegexCaptures2(chord_name, extension_quality_re, numeral_re))
        triad_quality == TriadQualityFrom(enriched.chord_quality)
        add_degree == AddDegree(chord_name)
        added == add_degree # "None" /\ ~Contains(enriched.intervals, add_degree)
        intervals == IF added THEN Append(enriched.intervals, add_degree)
                     ELSE enriched.intervals
        chord_quality == IF add_degree # "None"
                         THEN derive_chord_quality_from_intervals(intervals)
                         ELSE enriched.chord_quality
    IN  IF root_match = << >> \/ root = "Err" THEN InvalidChordName
        ELSE IF base_quality = "Err" THEN InvalidChordName
        ELSE [ok |-> TRUE,
              name |-> chord_name,
              root |-> root,
              intervals |-> intervals,
              notes |-> get_notes_from_root_and_intervals(root, intervals),
              chord_quality |-> chord_quality,
              triad_quality |-> triad_quality]

\* identify_from_name
identify_from_name(chord_name) ==
    LET root_match == RegexFind(chord_name, root_re)
        root == NoteFromStr(root_match)
        quality_match == RegexFind(chord_name, chord_quality_re)
        base_quality == IF quality_match = << >> THEN "Major"
                        ELSE parse_chord_quality(quality_match)
        enriched == ExtensionEnrichment(base_quality,
                        RegexCaptures2(chord_name, extension_quality_re, numeral_re))
        triad_quality == TriadQualityFrom(enriched.chord_quality)
        add_degree == AddDegree(chord_name)
        added == add_degree # "None" /\ ~Contains(enriched.intervals, add_degree)
        intervals == IF added THEN Append(enriched.intervals, add_degree)
                     ELSE enriched.intervals
        chord_quality == IF added THEN derive_chord_quality_from_intervals(intervals)
                         ELSE enriched.chord_quality
    IN  IF root_match = << >> \/ root = "Err" THEN InvalidChordName
        ELSE IF base_quality = "Err" THEN InvalidChordName
        ELSE [ok |-> TRUE,
              name |-> chord_name,
              root |-> root,
              intervals |-> intervals,
              notes |-> get_notes_from_root_and_intervals(root, intervals),
              chord_quality |-> chord_quality,
              triad_quality |-> triad_quality]

(***************************************************************************)
(* cli.rs                                                                  *)
(***************************************************************************)
\* the chord_name of theory::chord::identify_from_root_and_notes, the
\* function cli.rs calls: it differs from the parser's in the minor seventh
TheoryChordName(root, chord_quality) ==
    LET r == NoteDisplay(root)
    IN  CASE chord_quality = "Ambiguous" ->
                <<"A", "m", "b", "i", "g", "u", "o", "u", "s">>
          [] chord_quality = "Minor"      -> r \o <<"m">>
          [] chord_quality = "Major"      -> r
          [] chord_quality = "Diminished" -> r \o <<"d", "i", "m">>
          [] chord_quality = "Augmented"  -> r \o <<"a", "u", "g">>
          [] chord_quality = "Seventh(Augmented)" -> r \o <<"a", "u", "g", "7">>
          [] chord_quality = "Seventh(Suspended(Sus2))" ->
                r \o <<"7", "s", "u", "s", "2">>
          [] chord_quality = "Seventh(Suspended(Sus4))" ->
                r \o <<"7", "s", "u", "s", "4">>
          [] chord_quality = "Seventh(Minor)" -> r \o <<"m", "i", "n", "7">>
          [] chord_quality = "Seventh(Dominant)" -> r \o <<"7">>
          [] chord_quality = "Suspended(Sus2)" -> r \o <<"s", "u", "s", "2">>
          [] chord_quality = "Suspended(Sus4)" -> r \o <<"s", "u", "s", "4">>

\* the chords of notes.iter().for_each(|root| ...): every note in turn is the
\* root of the unchanged note list; the Ambiguous readings are dropped
RECURSIVE PossibleChords(_, _)
PossibleChords(notes, k) ==
    IF k > Len(notes) THEN << >>
    ELSE LET found == identify_from_root_and_notes(notes[k], notes)
             chord == [found EXCEPT
                         !.name = TheoryChordName(notes[k], found.chord_quality)]
         IN  (IF chord.chord_quality # "Ambiguous" THEN <<chord>> ELSE << >>)
                \o PossibleChords(notes, k + 1)

\* identify_chord_from_notes: Note::parse(n).unwrap() panics on a token that
\* is not a note; otherwise the names of the possible chords are printed and
\* Ok(()) is returned. No path of the function returns an Err value.
identify_chord_from_notes(tokens) ==
    LET parsed == [k \in 1..Len(tokens) |-> NoteFromStr(tokens[k])]
    IN  IF \E k \in 1..Len(tokens) : parsed[k] = "Err"
        THEN [outcome |-> "panic", printed |-> << >>]
        ELSE LET possible_chords == PossibleChords(parsed, 1)
             IN  [outcome |-> "Ok",
                  printed |-> [k \in 1..Len(possible_chords) |->
                                    possible_chords[k].name]]

(***************************************************************************)
(* The arguments of the calls.                                             *)
(***************************************************************************)
\* the sequences over S of length at most n
SeqsUpTo(S, n) == UNION {[1..k -> S] : k \in 0..n}

RECURSIVE Concat(_)
Concat(ss) == IF ss = << >> THEN << >> ELSE Head(ss) \o Concat(Tail(ss))

\* the note of the circular order `k` semitones above `root`
Transpose(root, k) == OCTAVE[((Position(root) + k) % 12) + 1]

\* the quality and extension tokens a chord symbol is written with
Tokens ==
    {<<"m">>, <<"d", "i", "m">>, <<"a", "u", "g">>,
     <<"s", "u", "s", "2">>, <<"s", "u", "s", "4">>,
     <<"7">>, <<"9">>, <<"1", "1">>}

\* the add tokens
AddTokens ==
    {<<"a", "d", "d", "7">>, <<"a", "d", "d", "9">>, <<"a", "d", "d", "1", "1">>}

\* the symbols without an add token: a root spelling, or none, followed by
\* at most MaxTokens quality and extension tokens
BareSymbols ==
    {r \o Concat(ts) : r \in {NoteDisplay(x) : x \in Note} \cup {<< >>},
                       ts \in SeqsUpTo(Tokens, MaxTokens)}

\* the symbols whose root spelling comes after a token
LateRootSymbols == {t \o NoteDisplay(x) : t \in Tokens, x \in Note}

\* the symbols with two root spellings, next to each other or around "m"
TwoRootSymbols ==
    {NoteDisplay(x) \o t \o NoteDisplay(y) :
        x \in Note, y \in Note, t \in {<< >>, <<"m">>}}

\* the symbols: a symbol without an add token, followed by an add token or
\* not, and the symbols whose root spelling is not in front
Symbols ==
    {s \o t : s \in BareSymbols, t \in AddTokens \cup {<< >>}}
        \cup LateRootSymbols
        \cup TwoRootSymbols

\* the note list of test_identify_from_root_and_notes_complex_gm11 on a root
Gm11Notes(root) ==
    <<root, Transpose(root, 3), Transpose(root, 7), Transpose(root, 10),
      Transpose(root, 2), Transpose(root, 5)>>

\* the notes of the canonical interval set of a quality on a root
QualityNotes(root, chord_quality) ==
    get_notes_from_root_and_intervals(root, VecFrom(chord_quality))

\* the note lists: the short ones, the chords of the qualities on every root
\* and the minor eleventh chords
NoteLists ==
    SeqsUpTo(Note, MaxNotes)
        \cup {QualityNotes(r, q) : r \in Note, q \in ChordQuality}
        \cup {Gm11Notes(r) : r \in Note}

\* the spellings typed at the note prompt: the notes, the flat spelling the
\* parser knows and one that it does not know
NoteTokens == {NoteDisplay(x) : x \in Note} \cup {<<"D", "b">>, <<"H">>}

\* a call: the function and its arguments; "-" and << >> for the arguments
\* the function does not take
NoCall ==
    [op |-> "none", root |-> "-", notes |-> << >>, name |-> << >>,
     intervals |-> << >>, quality |-> "-", tokens |-> << >>, value |-> 0]

\* the intervals of a set, listed in ascending order of their semitones
RECURSIVE AscendingList(_)
AscendingList(S) ==
    IF S = {}
    THEN << >>
    ELSE LET lowest == CHOOSE x \in S : \A y \in S : AsUsize(x) <= AsUsize(y)
         IN  <<lowest>> \o AscendingList(S \ {lowest})

\* the intervals of test_identify_from_root_and_notes_complex_gm11
Gm11Intervals ==
    <<"MinorThird", "PerfectFifth", "MinorSeventh", "MajorNinth",
      "PerfectEleventh">>

\* the interval lists without repetition and in ascending order: those of
\* at most MaxIntervals named intervals, and the one of the minor eleventh
AscendingIntervalLists ==
    {AscendingList(S) : S \in {T \in SUBSET (Interval \ {"Unknown"}) :
                                  Cardinality(T) <= MaxIntervals}}
        \cup {Gm11Intervals}

\* the calls of the notes -> chord direction
NotesCall(c) ==
    \/ \E r \in Note, ns \in NoteLists :
          c = [NoCall EXCEPT !.op = "identify_from_root_and_notes",
                             !.root = r, !.notes = ns]
    \/ \E r \in Note, q \in ChordQuality \ {"Ambiguous"} :
          c = [NoCall EXCEPT !.op = "quality_round_trip",
                             !.root = r, !.quality = q]
    \/ \E r \in Note, ns \in NoteLists :
          c = [NoCall EXCEPT !.op = "name_round_trip", !.root = r, !.notes = ns]
    \/ \E ts \in SeqsUpTo(NoteTokens, MaxNotes) :
          c = [NoCall EXCEPT !.op = "identify_chord_from_notes", !.tokens = ts]
    \/ \E r \in Note, v \in AscendingIntervalLists :
          c = [NoCall EXCEPT !.op = "rederive", !.root = r, !.intervals = v]

\* the calls of the symbol -> chord direction
NameCall(c) ==
    \/ \E s \in Symbols :
          c = [NoCall EXCEPT !.op = "identify_from_name", !.name = s]
    \/ \E s \in BareSymbols, t \in AddTokens :
          c = [NoCall EXCEPT !.op = "add_extension", !.name = s, !.tokens = <<t>>]
    \/ \E s \in BareSymbols :
          c = [NoCall EXCEPT !.op = "cross_path", !.name = s]

\* the interval lists: the short ones in every order and with repetitions,
\* and every set of intervals listed in ascending order
IntervalLists ==
    SeqsUpTo(Interval, MaxIntervals)
        \cup {AscendingList(S) : S \in SUBSET Interval}

\* the intervals above the seventh, and the one without a name
ExtensionIntervals == {"MinorNinth", "MajorNinth", "PerfectEleventh", "Unknown"}

\* the calls of the classifier on an interval list, and on a set of
\* intervals with one more interval behind it
ClassifyCall(c) ==
    \/ \E v \in IntervalLists :
          c = [NoCall EXCEPT !.op = "derive_chord_quality_from_intervals",
                             !.intervals = v]
    \/ \E S \in SUBSET Interval, x \in ExtensionIntervals :
          c = [NoCall EXCEPT !.op = "classify_extended",
                             !.intervals = Append(AscendingList(S), x)]

\* the calls of the interval vocabulary
IntervalCall(c) ==
    \/ \E r \in Note, n \in Note :
          c = [NoCall EXCEPT !.op = "find_interval", !.root = r, !.notes = <<n>>]
    \/ \E n \in 0..MaxSemitones :
          c = [NoCall EXCEPT !.op = "interval_from", !.value = n]
    \/ \E i \in Interval :
          c = [NoCall EXCEPT !.op = "interval_round_trip", !.intervals = <<i>>]

NoRet == [op |-> "none"]

(***************************************************************************)
(* The state machine: a call is drawn, the called function returns.        *)
(***************************************************************************)
Init ==
    /\ pc = "ready"
    /\ \/ NotesCall(call)
       \/ NameCall(call)
       \/ ClassifyCall(call)
       \/ IntervalCall(call)
    /\ ret = NoRet

InitNotes ==
    /\ pc = "ready"
    /\ NotesCall(call)
    /\ ret = NoRet

InitName ==
    /\ pc = "ready"
    /\ NameCall(call)
    /\ ret = NoRet

InitClassify ==
    /\ pc = "ready"
    /\ ClassifyCall(call)
    /\ ret = NoRet

InitInterval ==
    /\ pc = "ready"
    /\ IntervalCall(call)
    /\ ret = NoRet

Return(value) ==
    /\ pc' = "done"
    /\ ret' = value
    /\ UNCHANGED call

\* identify_from_root_and_notes(root, notes)
IdentifyFromRootAndNotes ==
    /\ pc = "ready"
    /\ call.op = "identify_from_root_and_notes"
    /\ Return(identify_from_root_and_notes(call.root, call.notes))

\* identify_from_name(chord_name)
IdentifyFromName ==
    /\ pc = "ready"
    /\ call.op = "identify_from_name"
    /\ Return(identify_from_name(call.name))

\* derive_chord_quality_from_intervals(intervals)
DeriveChordQuality ==
    /\ pc = "ready"
    /\ call.op = "derive_chord_quality_from_intervals"
    /\ Return([chord_quality |->
                 derive_chord_quality_from_intervals(call.intervals)])

\* the notes of a quality on a root, Vec::from(quality) stepped up from the
\* root, handed to identify_from_root_and_notes
QualityRoundTrip ==
    /\ pc = "ready"
    /\ call.op = "quality_round_trip"
    /\ LET notes == QualityNotes(call.root, call.quality)
       IN  Return([notes |-> notes,
                   chord |-> identify_from_root_and_notes(call.root, notes)])

\* the name identify_from_root_and_notes gives a chord, handed to
\* identify_from_name
NameRoundTrip ==
    /\ pc = "ready"
    /\ call.op = "name_round_trip"
    /\ LET chord == identify_from_root_and_notes(call.root, call.notes)
       IN  Return([chord |-> chord, parsed |-> identify_from_name(chord.name)])

\* identify_from_name on a symbol and on the symbol followed by an add token
AddExtension ==
    /\ pc = "ready"
    /\ call.op = "add_extension"
    /\ Return([base |-> identify_from_name(call.name),
               added |-> identify_from_name(call.name \o call.tokens[1])])

\* identify_chord_from_notes(notes_raw), the line split at whitespace
IdentifyChordFromNotes ==
    /\ pc = "ready"
    /\ call.op = "identify_chord_from_notes"
    /\ Return(identify_chord_from_notes(call.tokens))

\* the classifier on a set of intervals and on the set with one more
\* interval, the last of the list
ClassifyExtended ==
    /\ pc = "ready"
    /\ call.op = "classify_extended"
    /\ LET n == Len(call.intervals)
       IN  Return([base |-> derive_chord_quality_from_intervals(
                                SubSeq(call.intervals, 1, n - 1)),
                   added |-> derive_chord_quality_from_intervals(call.intervals)])

\* the notes of an interval list on a root, handed to
\* find_all_intervals_from_root_and_notes
Rederive ==
    /\ pc = "ready"
    /\ call.op = "rederive"
    /\ LET notes == get_notes_from_root_and_intervals(call.root, call.intervals)
       IN  Return([notes |-> notes,
                   intervals |->
                       find_all_intervals_from_root_and_notes(call.root, notes)])

\* the root and the notes identify_from_name returns, handed to
\* identify_from_root_and_notes
CrossPath ==
    /\ pc = "ready"
    /\ call.op = "cross_path"
    /\ \E parsed \in {identify_from_name(call.name)} :
          Return([parsed |-> parsed,
                  chord |-> IF parsed.ok
                            THEN identify_from_root_and_notes(parsed.root,
                                                              parsed.notes)
                            ELSE InvalidChordName])

\* find_interval(root, note)
FindInterval ==
    /\ pc = "ready"
    /\ call.op = "find_interval"
    /\ Return([interval |-> find_interval(call.root, call.notes[1])])

\* Interval::from(value)
IntervalFromUsize ==
    /\ pc = "ready"
    /\ call.op = "interval_from"
    /\ Return([interval |-> IntervalFrom(call.value)])

\* Interval::from(interval as usize)
IntervalRoundTrip ==
    /\ pc = "ready"
    /\ call.op = "interval_round_trip"
    /\ Return([value |-> AsUsize(call.intervals[1]),
               interval |-> IntervalFrom(AsUsize(call.intervals[1]))])

Next ==
    \/ IdentifyFromRootAndNotes
    \/ IdentifyFromName
    \/ DeriveChordQuality
    \/ QualityRoundTrip
    \/ NameRoundTrip
    \/ AddExtension
    \/ IdentifyChordFromNotes
    \/ ClassifyExtended
    \/ Rederive
    \/ CrossPath
    \/ FindInterval
    \/ IntervalFromUsize
    \/ IntervalRoundTrip

Spec == Init /\ [][Next]_vars

\* the notes -> chord direction alone
NextNotes ==
    \/ IdentifyFromRootAndNotes
    \/ QualityRoundTrip
    \/ NameRoundTrip
    \/ IdentifyChordFromNotes
    \/ Rederive

SpecNotes == InitNotes /\ [][NextNotes]_vars

\* the symbol -> chord direction alone
NextName ==
    \/ IdentifyFromName
    \/ AddExtension
    \/ CrossPath

SpecName == InitName /\ [][NextName]_vars

\* the classifier alone
NextClassify ==
    \/ DeriveChordQuality
    \/ ClassifyExtended

SpecClassify == InitClassify /\ [][NextClassify]_vars

\* the interval vocabulary alone
NextInterval ==
    \/ FindInterval
    \/ IntervalFromUsize
    \/ IntervalRoundTrip

SpecInterval == InitInterval /\ [][NextInterval]_vars

TypeOK ==
    /\ pc \in {"ready", "done"}
    /\ pc = "ready" => ret = NoRet

(***************************************************************************)
(* Properties.                                                             *)
(***************************************************************************)
\* the call `op` has returned
Returned(op) == pc = "done" /\ call.op = op

\* the semitone distance of a note above a root, in 0..11
Semitones(root, note) == (Position(note) - Position(root) + 12) % 12

\* no value occurs twice in v
NoDuplicates(v) == \A i, j \in 1..Len(v) : i # j => v[i] # v[j]

\* v is in ascending order of semitone distance
Ascending(v) == \A i, j \in 1..Len(v) : i < j => AsUsize(v[i]) <= AsUsize(v[j])

\* C1: quality -> notes -> quality is the identity: the notes of the
\* canonical interval set of a non-Ambiguous quality q on a root r are
\* identified by identify_from_root_and_notes as a chord of quality q.
C1_QualityRoundTrip ==
    Returned("quality_round_trip") => ret.chord.chord_quality = call.quality

\* C2: formatter -> parser round trip: the chord name that
\* identify_from_root_and_notes gives a non-Ambiguous chord is parsed by
\* identify_from_name to the same root and the same chord quality.
C2_NameRoundTrip ==
    (Returned("name_round_trip") /\ ret.chord.chord_quality # "Ambiguous") =>
        /\ ret.parsed.ok
        /\ ret.parsed.root = call.root
        /\ ret.parsed.chord_quality = ret.chord.chord_quality

\* the intervals of the notes after the root, each one from the first
\* register break on taken an octave higher
RegisterBreakIntervals(root, notes) ==
    LET raw(k) == Semitones(root, notes[k + 1])
        broken(k) == \E j \in 2..k : raw(j) < raw(j - 1)
    IN  [k \in 1..(Len(notes) - 1) |->
            IntervalFrom(IF broken(k) THEN raw(k) + 12 ELSE raw(k))]

\* C3: register-break octave disambiguation: for a note list that starts
\* with the root, a note whose distance from the root is smaller than that
\* of the note before it, and every later note, is reported an octave
\* higher; the notes [r, r+3, r+7, r+10, r+2, r+5] give the intervals
\* [MinorThird, PerfectFifth, MinorSeventh, MajorNinth, PerfectEleventh],
\* the quality Seventh(Minor) and the triad quality Minor.
C3_RegisterBreak ==
    (/\ Returned("identify_from_root_and_notes")
     /\ Len(call.notes) >= 1
     /\ call.notes[1] = call.root) =>
        /\ ret.intervals = RegisterBreakIntervals(call.root, call.notes)
        /\ call.notes = Gm11Notes(call.root) =>
              /\ ret.intervals = <<"MinorThird", "PerfectFifth", "MinorSeventh",
                                   "MajorNinth", "PerfectEleventh">>
              /\ ret.chord_quality = "Seventh(Minor)"
              /\ ret.triad_quality = "Minor"

\* the notes of a list that are not the root, in order
RECURSIVE NonRootNotes(_, _)
NonRootNotes(root, notes) ==
    IF notes = << >> THEN << >>
    ELSE (IF Head(notes) = root THEN << >> ELSE <<Head(notes)>>)
            \o NonRootNotes(root, Tail(notes))

\* C4: root position independence: for a note list that contains the root,
\* identify_from_root_and_notes derives one interval for each note other
\* than the root and none for the root, wherever the root sits.
C4_RootPositionIndependence ==
    (Returned("identify_from_root_and_notes") /\ Contains(call.notes, call.root)) =>
        LET others == NonRootNotes(call.root, call.notes)
        IN  ret.intervals =
                [k \in 1..Len(others) |->
                    IntervalFrom(Semitones(call.root, others[k]))]

\* C5: the intervals of the chord identify_from_root_and_notes returns hold
\* no value twice and are in ascending order of semitone distance.
C5_NotesIntervalsAscending ==
    Returned("identify_from_root_and_notes") =>
        NoDuplicates(ret.intervals) /\ Ascending(ret.intervals)

\* C6: the intervals of the chord identify_from_name returns hold no value
\* twice and are strictly ascending by semitone distance.
C6_NameIntervalsAscending ==
    (Returned("identify_from_name") /\ ret.ok) =>
        \A i, j \in 1..Len(ret.intervals) :
            i < j => AsUsize(ret.intervals[i]) < AsUsize(ret.intervals[j])

\* C7: an interval list with both a MinorThird and a MajorThird is
\* classified Ambiguous, whatever else it holds.
C7_BothThirdsAmbiguous ==
    (/\ Returned("derive_chord_quality_from_intervals")
     /\ Contains(call.intervals, "MinorThird")
     /\ Contains(call.intervals, "MajorThird")) =>
        ret.chord_quality = "Ambiguous"

\* the classifier returned Ambiguous for both thirds with a perfect fifth
C7_Witness ==
    /\ Returned("derive_chord_quality_from_intervals")
    /\ Contains(call.intervals, "MinorThird")
    /\ Contains(call.intervals, "MajorThird")
    /\ Contains(call.intervals, "PerfectFifth")
    /\ ret.chord_quality = "Ambiguous"

\* the interval an add token names
AddTokenInterval(t) ==
    CASE t = <<"a", "d", "d", "7">>      -> "MinorSeventh"
      [] t = <<"a", "d", "d", "9">>      -> "MajorNinth"
      [] t = <<"a", "d", "d", "1", "1">> -> "PerfectEleventh"

\* C8: add coalescing: when the interval of the add token is not in the
\* interval list of the symbol without the token, identify_from_name
\* appends it at the end and returns the classifier's quality of the full
\* list; R + "add7" gives the dominant seventh, the intervals
\* [MajorThird, PerfectFifth, MinorSeventh], the notes [R, R+4, R+7, R+10]
\* and the triad quality Major, for every root R.
C8_AddCoalescing ==
    (Returned("add_extension") /\ ret.base.ok) =>
        LET add == AddTokenInterval(call.tokens[1])
        IN  /\ ret.added.ok
            /\ ~Contains(ret.base.intervals, add) =>
                  /\ ret.added.intervals = Append(ret.base.intervals, add)
                  /\ ret.added.chord_quality =
                        derive_chord_quality_from_intervals(ret.added.intervals)
            /\ \A R \in Note :
                  (call.name = NoteDisplay(R) /\ add = "MinorSeventh") =>
                      /\ ret.added.chord_quality = "Seventh(Dominant)"
                      /\ ret.added.intervals =
                            <<"MajorThird", "PerfectFifth", "MinorSeventh">>
                      /\ ret.added.notes =
                            <<R, Transpose(R, 4), Transpose(R, 7), Transpose(R, 10)>>
                      /\ ret.added.triad_quality = "Major"

\* "A#add7" was parsed: the add changed the quality from Major to the
\* dominant seventh
C8_Witness ==
    /\ Returned("add_extension")
    /\ call.name = <<"A", "#">>
    /\ call.tokens = << <<"a", "d", "d", "7">> >>
    /\ ret.base.chord_quality = "Major"
    /\ ret.added.chord_quality = "Seventh(Dominant)"
    /\ ret.added.notes = <<"A#", "D", "F", "G#">>

\* C9: a 9th or an 11th is a pure extension: a symbol followed by add9 or
\* add11 is given the same chord quality as the symbol alone.
C9_AddIsPureExtension ==
    (/\ Returned("add_extension")
     /\ ret.base.ok
     /\ AddTokenInterval(call.tokens[1]) \in {"MajorNinth", "PerfectEleventh"}) =>
        /\ ret.added.ok
        /\ ret.added.chord_quality = ret.base.chord_quality

\* C10: the triad quality of the chord identify_from_name returns is the
\* ChordQuality -> TriadQuality mapping of the chord quality it returns.
C10_TriadOfReturnedQuality ==
    (Returned("identify_from_name") /\ ret.ok) =>
        ret.triad_quality = TriadQualityFrom(ret.chord_quality)

\* "Gmadd7" was parsed: the classifier turned Minor into Seventh(Minor)
\* after the triad quality had been taken
C10_Witness ==
    /\ Returned("identify_from_name")
    /\ call.name = <<"G", "m", "a", "d", "d", "7">>
    /\ ret.chord_quality = "Seventh(Minor)"
    /\ ret.triad_quality = "Minor"

(***************************************************************************)
(* The errors of identify_from_name.                                       *)
(***************************************************************************)
\* the symbol holds one of the twelve pitch-class tokens: each of them
\* begins with a letter from A to G, and each of these letters is a token
HasPitchClassToken(s) ==
    \E k \in 1..Len(s) : s[k] \in {"A", "B", "C", "D", "E", "F", "G"}

\* C11: identify_from_name returns an error exactly when the symbol holds no
\* pitch-class token; a symbol that holds one yields a chord with its root,
\* its notes and its qualities, whatever quality token it carries, so the
\* failure of the quality table is never reached.
C11_ErrorIffNoPitchClass ==
    Returned("identify_from_name") =>
        /\ ret.ok <=> HasPitchClassToken(call.name)
        /\ ret.ok =>
              /\ ret.root \in Note
              /\ ret.chord_quality \in ChordQuality
              /\ ret.triad_quality \in TriadQuality
              /\ Len(ret.notes) = Len(ret.intervals) + 1

\* a symbol of quality and extension tokens without a root is refused
C11_Witness ==
    /\ Returned("identify_from_name")
    /\ call.name = <<"s", "u", "s", "4", "7">>
    /\ ~ret.ok

(***************************************************************************)
(* The notes of a parsed symbol.                                           *)
(***************************************************************************)
\* the semitones of the intervals a symbol can carry
SemitonesOf(interval) ==
    CASE interval = "MajorSecond"       -> 2
      [] interval = "MinorThird"        -> 3
      [] interval = "MajorThird"        -> 4
      [] interval = "PerfectFourth"     -> 5
      [] interval = "DiminishedFifth"   -> 6
      [] interval = "PerfectFifth"      -> 7
      [] interval = "AugmentedFifth"    -> 8
      [] interval = "DiminishedSeventh" -> 9
      [] interval = "MinorSeventh"      -> 10
      [] interval = "Seventh"           -> 11
      [] interval = "DiminishedNinth"   -> 12
      [] interval = "MinorNinth"        -> 13
      [] interval = "MajorNinth"        -> 14
      [] interval = "PerfectEleventh"   -> 17

\* the pitch class `semitones` above a root in the twelve-note octave
PitchClassAbove(root, semitones) ==
    OCTAVE[((Position(root) + semitones) % 12) + 1]

\* C12: the notes of every chord identify_from_name returns are the root
\* followed by one note per interval, in the order of the intervals: the
\* pitch class at (position of the root + semitones of the interval) mod 12.
C12_NoteMaterialisation ==
    (Returned("identify_from_name") /\ ret.ok) =>
        /\ Len(ret.notes) = Len(ret.intervals) + 1
        /\ ret.notes[1] = ret.root
        /\ \A i \in 1..Len(ret.intervals) :
              ret.notes[i + 1] =
                  PitchClassAbove(ret.root, SemitonesOf(ret.intervals[i]))

\* G#dim11: the ninth and the eleventh wrap around the octave
C12_Witness ==
    /\ Returned("identify_from_name")
    /\ call.name = <<"G", "#", "d", "i", "m", "1", "1">>
    /\ ret.ok
    /\ ret.notes = <<"G#", "B", "D", "F", "A", "C#">>

(***************************************************************************)
(* The symbols of a root and one quality token, and their extensions.      *)
(***************************************************************************)
\* the string s starts with the string t
StartsWith(s, t) ==
    /\ Len(t) <= Len(s)
    /\ SubSeq(s, 1, Len(t)) = t

\* the roots whose spelling the symbol of the call starts with
LeadingRoots == {R \in Note : StartsWith(call.name, NoteDisplay(R))}

\* the quality tokens of a bare symbol, the empty one included
BareTokens ==
    {<< >>, <<"m">>, <<"d", "i", "m">>, <<"a", "u", "g">>,
     <<"s", "u", "s", "2">>, <<"s", "u", "s", "4">>}

\* the quality a bare token stands for
BareQuality(t) ==
    CASE t = << >>                 -> "Major"
      [] t = <<"m">>                -> "Minor"
      [] t = <<"d", "i", "m">>      -> "Diminished"
      [] t = <<"a", "u", "g">>      -> "Augmented"
      [] t = <<"s", "u", "s", "2">> -> "Suspended(Sus2)"
      [] t = <<"s", "u", "s", "4">> -> "Suspended(Sus4)"

\* the canonical intervals of the quality of a bare token
BareIntervals(t) ==
    CASE t = << >>                 -> <<"MajorThird", "PerfectFifth">>
      [] t = <<"m">>                -> <<"MinorThird", "PerfectFifth">>
      [] t = <<"d", "i", "m">>      -> <<"MinorThird", "DiminishedFifth">>
      [] t = <<"a", "u", "g">>      -> <<"MajorThird", "AugmentedFifth">>
      [] t = <<"s", "u", "s", "2">> -> <<"MajorSecond", "PerfectFifth">>
      [] t = <<"s", "u", "s", "4">> -> <<"PerfectFourth", "PerfectFifth">>

\* C13: for every root R and every token t of "", "m", "dim", "aug", "sus2",
\* "sus4", identify_from_name(R + t) returns the root R, the quality of t
\* and exactly the two canonical intervals of that quality, no seventh; the
\* "m" inside "dim" is not read as the minor token.
C13_BareSymbols ==
    \A R \in LeadingRoots, t \in BareTokens :
        (Returned("identify_from_name") /\ call.name = NoteDisplay(R) \o t) =>
            /\ ret.ok
            /\ ret.root = R
            /\ ret.chord_quality = BareQuality(t)
            /\ ret.intervals = BareIntervals(t)

\* A#dim: the sharp root, and the token that holds an "m"
C13_Witness ==
    /\ Returned("identify_from_name")
    /\ call.name = <<"A", "#", "d", "i", "m">>
    /\ ret.ok
    /\ ret.root = "A#"
    /\ ret.chord_quality = "Diminished"
    /\ ret.intervals = <<"MinorThird", "DiminishedFifth">>

\* the tokens the numeral of an extension can follow
ExtendedTokens == {<< >>, <<"m">>, <<"d", "i", "m">>, <<"a", "u", "g">>}

\* the seventh of the extension on the quality of a bare token
SeventhOf(t) ==
    IF t = <<"d", "i", "m">> THEN "DiminishedSeventh" ELSE "MinorSeventh"

\* the symbol `name` is the root R with the token t and the numeral n: the
\* numeral behind the token, or behind the root with the token after it
IsExtended(name, R, t, n) ==
    \/ t \in ExtendedTokens /\ name = NoteDisplay(R) \o t \o n
    \/ name = NoteDisplay(R) \o n \o t

\* C14: the numeral 7 appends exactly one seventh after the base intervals
\* of the quality: DiminishedSeventh when the base is Diminished (R + "dim7"),
\* MinorSeventh otherwise (R + "aug7", R + "m7", R + "7", R + "7sus2", ...).
C14_ExtensionSeven ==
    \A R \in LeadingRoots, t \in BareTokens :
        (Returned("identify_from_name") /\ IsExtended(call.name, R, t, <<"7">>)) =>
            /\ ret.ok
            /\ ret.intervals = Append(BareIntervals(t), SeventhOf(t))

\* F#dim7
C14_Witness ==
    /\ Returned("identify_from_name")
    /\ call.name = <<"F", "#", "d", "i", "m", "7">>
    /\ ret.ok
    /\ ret.intervals = <<"MinorThird", "DiminishedFifth", "DiminishedSeventh">>

\* the ninth of a diminished chain and of the others
ChainNinthOf(t) ==
    IF t = <<"d", "i", "m">> THEN "MinorNinth" ELSE "MajorNinth"

\* C15: "9" appends the seventh of the 7 rule and then a MajorNinth, or a
\* MinorNinth when the base quality is Diminished; "11" appends everything
\* "9" appends and then a PerfectEleventh.
C15_NinthEleventhCumulative ==
    \A R \in LeadingRoots, t \in BareTokens :
        /\ (Returned("identify_from_name") /\ IsExtended(call.name, R, t, <<"9">>)) =>
              /\ ret.ok
              /\ ret.intervals =
                    BareIntervals(t) \o <<SeventhOf(t), ChainNinthOf(t)>>
        /\ (Returned("identify_from_name") /\ IsExtended(call.name, R, t, <<"1", "1">>)) =>
              /\ ret.ok
              /\ ret.intervals =
                    BareIntervals(t)
                        \o <<SeventhOf(t), ChainNinthOf(t), "PerfectEleventh">>

\* C15, amended: "9" appends the seventh of the 7 rule and then a MajorNinth
\* for every base quality, Diminished included: only the seventh is
\* diminished. "11" appends the seventh, then a MajorNinth, or a MinorNinth
\* when the base quality is Diminished, and then a PerfectEleventh. So "11"
\* appends what "9" appends and a PerfectEleventh except on a diminished
\* base, where the ninth of "11" is minor and the ninth of "9" is major.
C15_NinthEleventhAmended ==
    \A R \in LeadingRoots, t \in BareTokens :
        /\ (Returned("identify_from_name") /\ IsExtended(call.name, R, t, <<"9">>)) =>
              /\ ret.ok
              /\ ret.intervals =
                    BareIntervals(t) \o <<SeventhOf(t), "MajorNinth">>
        /\ (Returned("identify_from_name") /\ IsExtended(call.name, R, t, <<"1", "1">>)) =>
              /\ ret.ok
              /\ ret.intervals =
                    BareIntervals(t)
                        \o <<SeventhOf(t), ChainNinthOf(t), "PerfectEleventh">>

\* Gdim9: the diminished seventh and a major ninth
C15_Witness ==
    /\ Returned("identify_from_name")
    /\ call.name = <<"G", "d", "i", "m", "9">>
    /\ ret.ok
    /\ ret.intervals =
          <<"MinorThird", "DiminishedFifth", "DiminishedSeventh", "MajorNinth">>

(***************************************************************************)
(* The note line of the menu.                                              *)
(***************************************************************************)
\* C16: when a token of the note line is not a spelling Note::from_str
\* knows, identify_chord_from_notes returns a NoteParseError value to its
\* caller and prints no chord: the caller reports the error and the menu
\* loop goes on.
C16_InvalidTokenReturnsError ==
    (/\ Returned("identify_chord_from_notes")
     /\ \E k \in 1..Len(call.tokens) : NoteFromStr(call.tokens[k]) = "Err") =>
        /\ ret.outcome = "Err"
        /\ ret.printed = << >>

(***************************************************************************)
(* The decisions of the classifier.                                        *)
(***************************************************************************)
\* the classifier has returned and its interval list holds the interval
Has(interval) == Contains(call.intervals, interval)

\* the classifier has returned on an interval list
Classified == Returned("derive_chord_quality_from_intervals")

\* C17: without a third the quality is Ambiguous when the PerfectFifth is
\* absent or when both the MajorSecond and the PerfectFourth are present;
\* with the PerfectFifth and the MajorSecond alone it is Suspended(Sus2),
\* with the PerfectFifth and the PerfectFourth alone Suspended(Sus4), each
\* the suspended seventh when a MinorSeventh is present; Ambiguous otherwise.
C17_ThirdlessClassification ==
    (Classified /\ ~Has("MinorThird") /\ ~Has("MajorThird")) =>
        ret.chord_quality =
            IF ~Has("PerfectFifth") \/ (Has("MajorSecond") /\ Has("PerfectFourth"))
            THEN "Ambiguous"
            ELSE IF Has("MajorSecond")
            THEN IF Has("MinorSeventh") THEN "Seventh(Suspended(Sus2))"
                                        ELSE "Suspended(Sus2)"
            ELSE IF Has("PerfectFourth")
            THEN IF Has("MinorSeventh") THEN "Seventh(Suspended(Sus4))"
                                        ELSE "Suspended(Sus4)"
            ELSE "Ambiguous"

\* the interval list holds exactly one of the two thirds
OnlyMinorThird == Has("MinorThird") /\ ~Has("MajorThird")
OnlyMajorThird == Has("MajorThird") /\ ~Has("MinorThird")

\* the list holds no fifth of any kind
NoFifth ==
    ~Has("PerfectFifth") /\ ~Has("DiminishedFifth") /\ ~Has("AugmentedFifth")

\* the DiminishedFifth that makes a minor third diminished
QualifyingDiminishedFifth == Has("DiminishedFifth") /\ ~Has("AugmentedFifth")

\* C18: a MajorThird and a MinorSeventh with no fifth of any kind are a
\* dominant seventh, a MinorThird and a MinorSeventh with neither the
\* PerfectFifth nor a qualifying DiminishedFifth are Seventh(Minor); neither
\* is Ambiguous.
C18_SeventhWithOmittedFifth ==
    /\ (Classified /\ OnlyMajorThird /\ Has("MinorSeventh") /\ NoFifth) =>
          ret.chord_quality = "Seventh(Dominant)"
    /\ (/\ Classified /\ OnlyMinorThird /\ Has("MinorSeventh")
        /\ ~Has("PerfectFifth") /\ ~QualifyingDiminishedFifth) =>
          ret.chord_quality = "Seventh(Minor)"

\* C18, amended: the classifier reads a seventh chord only with the
\* PerfectFifth. A MajorThird and a MinorSeventh with no fifth of any kind
\* are Ambiguous, and so are a MinorThird and a MinorSeventh with neither
\* the PerfectFifth nor a qualifying DiminishedFifth.
C18_OmittedFifthAmbiguous ==
    /\ (Classified /\ OnlyMajorThird /\ Has("MinorSeventh") /\ NoFifth) =>
          ret.chord_quality = "Ambiguous"
    /\ (/\ Classified /\ OnlyMinorThird /\ Has("MinorSeventh")
        /\ ~Has("PerfectFifth") /\ ~QualifyingDiminishedFifth) =>
          ret.chord_quality = "Ambiguous"

\* a major third and a minor seventh, nothing else
C18_Witness ==
    /\ Classified
    /\ call.intervals = <<"MajorThird", "MinorSeventh">>
    /\ ret.chord_quality = "Ambiguous"

\* C19: with exactly one third and the PerfectFifth the quality is Major or
\* Minor when no MinorSeventh is present and the dominant or the minor
\* seventh when one is, whether or not a DiminishedFifth or an AugmentedFifth
\* is present as well.
C19_PerfectFifthPrecedence ==
    /\ (Classified /\ OnlyMajorThird /\ Has("PerfectFifth")) =>
          ret.chord_quality =
              IF Has("MinorSeventh") THEN "Seventh(Dominant)" ELSE "Major"
    /\ (Classified /\ OnlyMinorThird /\ Has("PerfectFifth")) =>
          ret.chord_quality =
              IF Has("MinorSeventh") THEN "Seventh(Minor)" ELSE "Minor"

\* a minor third, the perfect fifth and the diminished fifth that would
\* make the chord diminished without it
C19_Witness ==
    /\ Classified
    /\ call.intervals = <<"MinorThird", "DiminishedFifth", "PerfectFifth">>
    /\ ret.chord_quality = "Minor"

\* C20: without the PerfectFifth, a MinorThird alone with a DiminishedFifth
\* and no AugmentedFifth is Diminished, or Seventh(HalfDiminished) when a
\* MinorSeventh is present; a MajorThird alone with an AugmentedFifth and no
\* DiminishedFifth is Augmented, or the augmented seventh when a MinorSeventh
\* is present.
C20_AlteredFifthRule ==
    /\ (/\ Classified /\ ~Has("PerfectFifth") /\ OnlyMinorThird
        /\ Has("DiminishedFifth") /\ ~Has("AugmentedFifth")) =>
          ret.chord_quality =
              IF Has("MinorSeventh") THEN "Seventh(HalfDiminished)"
                                     ELSE "Diminished"
    /\ (/\ Classified /\ ~Has("PerfectFifth") /\ OnlyMajorThird
        /\ Has("AugmentedFifth") /\ ~Has("DiminishedFifth")) =>
          ret.chord_quality =
              IF Has("MinorSeventh") THEN "Seventh(Augmented)"
                                     ELSE "Augmented"

\* C21: for every set of intervals, the classifier returns the same quality
\* for the set and for the set with a MinorNinth, a MajorNinth, a
\* PerfectEleventh or an Unknown added to it.
C21_ExtensionsDoNotClassify ==
    (/\ Returned("classify_extended")
     /\ call.intervals[Len(call.intervals)] \in
            {"MinorNinth", "MajorNinth", "PerfectEleventh", "Unknown"}) =>
        ret.added = ret.base

\* a dominant seventh and the same with a major ninth
C21_Witness ==
    /\ Returned("classify_extended")
    /\ call.intervals =
          <<"MajorThird", "PerfectFifth", "MinorSeventh", "MajorNinth">>
    /\ ret.base = "Seventh(Dominant)"
    /\ ret.added = "Seventh(Dominant)"

\* the numerals of an extension
Numerals == {<<"7">>, <<"9">>, <<"1", "1">>}

\* the seventh-bearing counterpart of the quality of a bare token
SeventhCounterpart(t) ==
    CASE t = << >>                 -> "Seventh(Major)"
      [] t = <<"m">>                -> "Seventh(Minor)"
      [] t = <<"d", "i", "m">>      -> "Seventh(Diminished)"
      [] t = <<"a", "u", "g">>      -> "Seventh(Augmented)"
      [] t = <<"s", "u", "s", "2">> -> "Seventh(Suspended(Sus2))"
      [] t = <<"s", "u", "s", "4">> -> "Seventh(Suspended(Sus4))"

C23_RedundantAddNoOp ==
    (/\ Returned("add_extension")
     /\ ret.base.ok
     /\ Contains(ret.base.intervals, AddTokenInterval(call.tokens[1]))) =>
        /\ ret.added.ok
        /\ ret.added.intervals = ret.base.intervals
        /\ ret.added.notes = ret.base.notes
        /\ ret.added.chord_quality = ret.base.chord_quality
        /\ ret.added.triad_quality = ret.base.triad_quality

\* G7add7: the quality stays the promoted Seventh(Major), which the
\* classifier would not return
C23_Witness ==
    /\ Returned("add_extension")
    /\ call.name = <<"G", "7">>
    /\ call.tokens = << <<"a", "d", "d", "7">> >>
    /\ ret.base.ok
    /\ ret.added.intervals = <<"MajorThird", "PerfectFifth", "MinorSeventh">>
    /\ ret.added.chord_quality = "Seventh(Major)"

\* the sharped pitch classes
SharpNotes == {"C#", "D#", "F#", "G#", "A#"}

\* C24: for every symbol that starts with C#, D#, F#, G# or A#,
\* identify_from_name returns the sharped pitch class as the root, not the
\* bare letter, and a capital letter A-G later in the symbol does not
\* replace it.
C24_LeftmostSharpRoot ==
    \A R \in SharpNotes :
        (Returned("identify_from_name") /\ StartsWith(call.name, NoteDisplay(R))) =>
            /\ ret.ok
            /\ ret.root = R

\* C#mA: the root is C#, neither C nor the later A
C24_Witness ==
    /\ Returned("identify_from_name")
    /\ call.name = <<"C", "#", "m", "A">>
    /\ ret.ok
    /\ ret.root = "C#"

(***************************************************************************)
(* The deriver on the notes of an interval list.                           *)
(***************************************************************************)
\* the intervals of v rise strictly in their semitones
StrictlyAscending(v) ==
    \A i \in 1..(Len(v) - 1) : SemitonesOf(v[i]) < SemitonesOf(v[i + 1])

PositionOf(n) ==
    CASE n = "C"  -> 0  [] n = "C#" -> 1  [] n = "D"  -> 2  [] n = "D#" -> 3
      [] n = "E"  -> 4  [] n = "F"  -> 5  [] n = "F#" -> 6  [] n = "G"  -> 7
      [] n = "G#" -> 8  [] n = "A"  -> 9  [] n = "A#" -> 10 [] n = "B"  -> 11

\* the interval named by a distance within the octave
NamedDistance(d) ==
    CASE d = 2  -> "MajorSecond"
      [] d = 3  -> "MinorThird"
      [] d = 4  -> "MajorThird"
      [] d = 5  -> "PerfectFourth"
      [] d = 6  -> "DiminishedFifth"
      [] d = 7  -> "PerfectFifth"
      [] d = 8  -> "AugmentedFifth"
      [] d = 9  -> "DiminishedSeventh"
      [] d = 10 -> "MinorSeventh"
      [] d = 11 -> "Seventh"
      [] d \in {0, 1} -> "Unknown"

\* C26: for every pair of pitch classes, find_interval returns the interval
\* named by (position(note) - position(root) + 12) mod 12: the distances 2
\* to 11 give the ten intervals MajorSecond to Seventh, the distances 0 and
\* 1 give Unknown, and every pair has a result because OCTAVE holds each of
\* the twelve notes exactly once.
C26_FindInterval ==
    /\ \A n \in Note : Cardinality({k \in 1..Len(OCTAVE) : OCTAVE[k] = n}) = 1
    /\ Returned("find_interval") =>
          LET d == (PositionOf(call.notes[1]) - PositionOf(call.root) + 12) % 12
          IN  ret.interval = NamedDistance(d)

\* the note below the root: F above G is a minor seventh
C26_Witness ==
    /\ Returned("find_interval")
    /\ call.root = "G"
    /\ call.notes = <<"F">>
    /\ ret.interval = "MinorSeventh"

\* the semitone values that have a name
CanonicalSemitones == {2, 3, 4, 5, 6, 7, 8, 9, 10, 11, 12, 13, 14, 17}

\* C27: Interval::from maps each of 2, 3, 4, 5, 6, 7, 8, 9, 10, 11, 12, 13,
\* 14 and 17 to a named interval whose semitone value is that number, so to
\* a different interval each, and every other number to Unknown; hence
\* Interval::from of the semitones of a named interval is that interval.
C27_IntervalRoundTrip ==
    /\ Returned("interval_from") =>
          IF call.value \in CanonicalSemitones
          THEN /\ ret.interval \in Interval \ {"Unknown"}
               /\ AsUsize(ret.interval) = call.value
          ELSE ret.interval = "Unknown"
    /\ (Returned("interval_round_trip") /\ call.intervals[1] # "Unknown") =>
          /\ ret.value \in CanonicalSemitones
          /\ ret.interval = call.intervals[1]

\* 17 semitones are the perfect eleventh
C27_Witness ==
    /\ Returned("interval_from")
    /\ call.value = 17
    /\ ret.interval = "PerfectEleventh"

(***************************************************************************)
(* The two directions against each other.                                  *)
(***************************************************************************)
\* C28: for every symbol identify_from_name accepts, the root and the notes
\* it returns, handed to identify_from_root_and_notes, are classified with
\* the chord_quality the parser returned.
C28_CrossPathConsistency ==
    (Returned("cross_path") /\ ret.parsed.ok) =>
        ret.chord.chord_quality = ret.parsed.chord_quality

====
